---- MODULE Spec2Model ----
(***************************************************************************)
(* Model of functions/calc_funcs.py: loan payments, amortization           *)
(* schedules, electricity costs with government support, the two-party    *)
(* monthly cost breakdown and the scenario sweeps.                         *)
(*                                                                         *)
(* Numbers are exact extended rationals <<n, d>> in lowest terms, d > 0.   *)
(* The three IEEE-754 specials that numpy arithmetic produces are kept:    *)
(* <<0,0>> is NaN, <<1,0>> is +inf and <<-1,0>> is -inf.  Rounding error   *)
(* of binary floating point is not modelled.                               *)
(***************************************************************************)
EXTENDS Integers, Sequences, FiniteSets, TLC

VARIABLES pc, op, args, result

vars == <<pc, op, args, result>>

-----------------------------------------------------------------------------
(* Bounds of the model *)

\* longest array handed to loan_calc and longest range of the electricity sweep
MaxLen == 2

\* longest loan term in months
MaxTerm == 3

\* how many of the 13 ranges of the household sweep hold other than one value
MaxVarying == 2

-----------------------------------------------------------------------------
(* Extended rational arithmetic (Python / numpy float semantics) *)

Abs(x) == IF x < 0 THEN -x ELSE x

Sgn(x) == IF x < 0 THEN -1 ELSE IF x > 0 THEN 1 ELSE 0

RECURSIVE GCD(_, _)
GCD(a, b) == IF b = 0 THEN a ELSE GCD(b, a % b)

Norm(n, d) == LET g == GCD(Abs(n), d) IN <<n \div g, d \div g>>

NaN == <<0, 0>>

Inf == <<1, 0>>

Zero == <<0, 1>>

One == <<1, 1>>

R(n) == <<n, 1>>

Q(n, d) == Norm(n, d)

IsNaN(x) == x = NaN

IsFinite(x) == x[2] > 0

IsInf(x) == x[2] = 0 /\ x[1] # 0

Neg(a) == <<-a[1], a[2]>>

Add(a, b) ==
    IF IsNaN(a) \/ IsNaN(b) THEN NaN
    ELSE IF IsInf(a) /\ IsInf(b) THEN (IF a = b THEN a ELSE NaN)
    ELSE IF IsInf(a) THEN a
    ELSE IF IsInf(b) THEN b
    ELSE LET g == GCD(a[2], b[2])
         IN  Norm(a[1] * (b[2] \div g) + b[1] * (a[2] \div g), (a[2] \div g) * b[2])

Sub(a, b) == Add(a, Neg(b))

Mul(a, b) ==
    IF IsNaN(a) \/ IsNaN(b) THEN NaN
    ELSE IF IsInf(a) \/ IsInf(b)
         THEN (IF a[1] = 0 \/ b[1] = 0 THEN NaN ELSE <<Sgn(a[1]) * Sgn(b[1]), 0>>)
    ELSE LET g1 == GCD(Abs(a[1]), b[2])
             g2 == GCD(Abs(b[1]), a[2])
         IN  Norm((a[1] \div g1) * (b[1] \div g2), (a[2] \div g2) * (b[2] \div g1))

\* numpy true division: x/0 is +-inf, 0/0 and inf/inf are NaN, no exception
Div(a, b) ==
    IF IsNaN(a) \/ IsNaN(b) THEN NaN
    ELSE IF IsInf(b) THEN (IF IsInf(a) THEN NaN ELSE Zero)
    ELSE IF b[1] = 0 THEN (IF a[1] = 0 THEN NaN ELSE <<Sgn(a[1]), 0>>)
    ELSE IF IsInf(a) THEN <<Sgn(a[1]) * Sgn(b[1]), 0>>
    ELSE Mul(a, <<Sgn(b[1]) * b[2], Abs(b[1])>>)

RECURSIVE Pow(_, _)
Pow(a, k) ==
    IF k = 0 THEN One
    ELSE IF k < 0 THEN Div(One, Pow(a, -k))
    ELSE Mul(a, Pow(a, k - 1))

\* comparisons of finite numbers
Lt(a, b) == a[1] * b[2] < b[1] * a[2]

Leq(a, b) == a[1] * b[2] <= b[1] * a[2]

\* the == of floats: NaN equals nothing, itself included
NumEq(a, b) == ~IsNaN(a) /\ ~IsNaN(b) /\ a = b

\* numpy round(0): to the nearest whole number, halves to the even one
Round0(a) ==
    IF ~IsFinite(a) THEN a
    ELSE LET fl  == a[1] \div a[2]
             rem == a[1] - fl * a[2]
         IN  IF 2 * rem < a[2] THEN R(fl)
             ELSE IF 2 * rem > a[2] THEN R(fl + 1)
             ELSE IF fl % 2 = 0 THEN R(fl) ELSE R(fl + 1)

-----------------------------------------------------------------------------
(* Inputs.  A scalar argument is kept as the one-element array that         *)
(* np.atleast_1d makes of it, with a flag telling the two apart.            *)

Scalar(x) == [scalar |-> TRUE, v |-> <<x>>]

Array(s) == [scalar |-> FALSE, v |-> s]

SeqsUpTo(S, n) == UNION {[1..k -> S] : k \in 0..n}

\* a scalar, or an array of 1..MaxLen elements
Arrays(S) == {Scalar(x) : x \in S} \cup {Array(s) : s \in SeqsUpTo(S, MaxLen) \ {<<>>}}

\* loan amounts: whole, fractional, negative
LoanValues == {R(100), Q(201, 2), R(-100)}

\* annual interest rates: none, 120 % and 300 % (monthly 1/10 and 1/4)
RateValues == {Zero, Q(6, 5), R(3)}

\* loan terms in months, -1 and 0 included
Terms == -1..MaxTerm

-----------------------------------------------------------------------------
(* loan_calc *)

RECURSIVE ravel(_)
ravel(rows) == IF rows = <<>> THEN <<>> ELSE Head(rows) \o ravel(Tail(rows))

loan_calc(loan, rate, months) ==
    LET l == loan.v
        r == rate.v
        cell(i, j) ==
            LET monthly_rate == Div(r[j], R(12))
                numerator    == Mul(monthly_rate, Pow(Add(One, monthly_rate), months))
                denominator  == Sub(Pow(Add(One, monthly_rate), months), One)
            IN  Mul(Div(numerator, denominator), l[i])
        res == [i \in 1..Len(l) |-> [j \in 1..Len(r) |-> cell(i, j)]]
    IN  IF Len(l) * Len(r) = 1
        THEN [kind |-> "payment", shape |-> "scalar", data |-> <<<<res[1][1]>>>>]
        ELSE IF Len(l) = 1 \/ Len(r) = 1
        THEN [kind |-> "payment", shape |-> "vector", data |-> <<ravel(res)>>]
        ELSE [kind |-> "payment", shape |-> "matrix", data |-> res]

\* the number a call with two scalars returns (result.item())
loan_calc_item(loan, rate, months) ==
    loan_calc(Scalar(loan), Scalar(rate), months).data[1][1]

CallLoanCalc ==
    /\ pc = "idle"
    /\ \E loan \in Arrays(LoanValues), rate \in Arrays(RateValues), months \in Terms :
          /\ op' = "loan_calc"
          /\ args' = [loan |-> loan, rate |-> rate, months |-> months]
          /\ result' = loan_calc(loan, rate, months)
    /\ pc' = "returned"

-----------------------------------------------------------------------------
(* calculate_amortization_schedule, with numpy_financial's pmt, fv, ipmt,   *)
(* ppmt (payments at the end of the period, no future value)               *)

pmt(rate, nper, pv) ==
    LET temp == Pow(Add(One, rate), nper)
        fact == IF rate = Zero THEN R(nper) ELSE Div(Sub(temp, One), rate)
    IN  Neg(Div(Mul(pv, temp), fact))

fv(rate, nper, payment, pv) ==
    IF rate = Zero
    THEN Neg(Add(pv, Mul(payment, R(nper))))
    ELSE LET temp == Pow(Add(One, rate), nper)
         IN  Neg(Add(Mul(pv, temp), Mul(Div(payment, rate), Sub(temp, One))))

ipmt(rate, per, nper, pv) == Mul(fv(rate, per - 1, pmt(rate, nper, pv), pv), rate)

ppmt(rate, per, nper, pv) == Sub(pmt(rate, nper, pv), ipmt(rate, per, nper, pv))

RECURSIVE cumsum(_)
cumsum(s) ==
    IF s = <<>> THEN <<>>
    ELSE LET front == cumsum(SubSeq(s, 1, Len(s) - 1))
         IN  Append(front, IF front = <<>> THEN s[Len(s)]
                           ELSE Add(front[Len(front)], s[Len(s)]))

\* a variant that takes the remaining balance from the interest column
calculate_amortization_schedule_interest_balance(loan_amount, annual_interest_rate, loan_term_months) ==
    IF loan_term_months < 0
    THEN [kind |-> "ValueError", rows |-> <<>>]
    ELSE
    LET n == loan_term_months
        monthly_interest_rate == Div(annual_interest_rate, R(12))
        interest_pmt  == [k \in 1..n |-> Neg(ipmt(monthly_interest_rate, k, n, loan_amount))]
        principal_pmt == [k \in 1..n |-> Neg(ppmt(monthly_interest_rate, k, n, loan_amount))]
        ci == <<Zero>> \o cumsum(interest_pmt)
        cp == <<Zero>> \o cumsum(principal_pmt)
        cumulative_interest  == [k \in 1..(n + 1) |-> Round0(ci[k])]
        cumulative_principal == [k \in 1..(n + 1) |-> Round0(cp[k])]
        cumulative_total ==
            [k \in 1..(n + 1) |-> Add(cumulative_principal[k], cumulative_interest[k])]
        remaining_balance ==
            <<loan_amount>> \o [k \in 1..n |-> Sub(loan_amount, cumulative_interest[k + 1])]
    IN  [kind |-> "schedule",
         rows |-> [k \in 1..(n + 1) |->
                     [Month            |-> k - 1,
                      Principal        |-> cumulative_principal[k],
                      Interest         |-> cumulative_interest[k],
                      RemainingBalance |-> remaining_balance[k],
                      TotalPaid        |-> cumulative_total[k]]]]

calculate_amortization_schedule(loan_amount, annual_interest_rate, loan_term_months) ==
    IF loan_term_months < 0
    THEN [kind |-> "ValueError", rows |-> <<>>]    \* np.repeat refuses a negative count
    ELSE
    LET n == loan_term_months
        monthly_interest_rate == Div(annual_interest_rate, R(12))
        interest_pmt  == [k \in 1..n |-> Neg(ipmt(monthly_interest_rate, k, n, loan_amount))]
        principal_pmt == [k \in 1..n |-> Neg(ppmt(monthly_interest_rate, k, n, loan_amount))]
        ci == <<Zero>> \o cumsum(interest_pmt)
        cp == <<Zero>> \o cumsum(principal_pmt)
        cumulative_interest  == [k \in 1..(n + 1) |-> Round0(ci[k])]
        cumulative_principal == [k \in 1..(n + 1) |-> Round0(cp[k])]
        cumulative_total ==
            [k \in 1..(n + 1) |-> Add(cumulative_principal[k], cumulative_interest[k])]
        remaining_balance ==
            <<loan_amount>> \o [k \in 1..n |-> Sub(loan_amount, cumulative_principal[k + 1])]
    IN  [kind |-> "schedule",
         rows |-> [k \in 1..(n + 1) |->
                     [Month            |-> k - 1,
                      Principal        |-> cumulative_principal[k],
                      Interest         |-> cumulative_interest[k],
                      RemainingBalance |-> remaining_balance[k],
                      TotalPaid        |-> cumulative_total[k]]]]

CallAmortizationSchedule ==
    /\ pc = "idle"
    /\ \E loan \in LoanValues, rate \in RateValues, months \in Terms :
          /\ op' = "calculate_amortization_schedule"
          /\ args' = [loan |-> loan, rate |-> rate, months |-> months]
          /\ result' = calculate_amortization_schedule(loan, rate, months)
    /\ pc' = "returned"

-----------------------------------------------------------------------------
(* Electricity: calculate_govt_support, calculate_electricity_costs and     *)
(* scenario_analysis_electricity_costs                                     *)

\* usage up to which government support is paid
KwhSupportCap == 5000

\* default govt_support_limit_nok, 0.9125
DefaultSupportLimit == Q(73, 80)

KwhValues == {R(-100), R(100), R(5000), R(6000)}

PriceValues == {Q(1, 2), Q(73, 80), Q(3, 2)}

MarkupValues == {Zero, Q(1, 10)}

FixedCostValues == {R(-50), R(50)}

SupportLimitValues == {DefaultSupportLimit, One}

\* a variant that stops the support just below the cap instead of at it
calculate_govt_support_below_cap(kwh_usage, kwh_price_incl_vat_nok, govt_support_limit_nok) ==
    IF Lt(kwh_usage, R(KwhSupportCap))
    THEN Mul(Mul(kwh_usage, Sub(kwh_price_incl_vat_nok, govt_support_limit_nok)), Q(9, 10))
    ELSE Zero

calculate_govt_support(kwh_usage, kwh_price_incl_vat_nok, govt_support_limit_nok) ==
    IF Leq(kwh_usage, R(KwhSupportCap))
    THEN Mul(Mul(kwh_usage, Sub(kwh_price_incl_vat_nok, govt_support_limit_nok)), Q(9, 10))
    ELSE Zero

calculate_electricity_costs(kwh_usage, kwh_price_incl_vat_nok, markup_nok, fixed_cost_nok, govt_support_limit_nok) ==
    LET costs == Add(fixed_cost_nok, Mul(kwh_usage, Add(kwh_price_incl_vat_nok, markup_nok)))
    IN  IF Leq(kwh_price_incl_vat_nok, govt_support_limit_nok)
        THEN costs
        ELSE Sub(costs, calculate_govt_support(kwh_usage, kwh_price_incl_vat_nok,
                                               govt_support_limit_nok))

CallGovtSupport ==
    /\ pc = "idle"
    /\ \E kwh \in KwhValues, price \in PriceValues, limit \in SupportLimitValues :
          /\ op' = "calculate_govt_support"
          /\ args' = [kwh_usage |-> kwh, price |-> price, limit |-> limit]
          /\ result' = [kind |-> "amount", value |-> calculate_govt_support(kwh, price, limit)]
    /\ pc' = "returned"

CallElectricityCosts ==
    /\ pc = "idle"
    /\ \E kwh \in KwhValues, price \in PriceValues, markup \in MarkupValues,
          fixed \in FixedCostValues, limit \in SupportLimitValues :
          /\ op' = "calculate_electricity_costs"
          /\ args' = [kwh_usage |-> kwh, price |-> price, markup |-> markup,
                      fixed_cost |-> fixed, limit |-> limit]
          /\ result' = [kind |-> "amount",
                        value |-> calculate_electricity_costs(kwh, price, markup, fixed, limit)]
    /\ pc' = "returned"

\* the inner loop: one scenario appended per price, for one usage
RECURSIVE price_loop(_, _, _, _, _, _)
price_loop(scenarios, kwh_usage, kwh_price_range, markup_nok, fixed_cost_nok, limit) ==
    IF kwh_price_range = <<>> THEN scenarios
    ELSE LET kwh_price  == Head(kwh_price_range)
             total_cost == calculate_electricity_costs(kwh_usage, kwh_price, markup_nok,
                                                       fixed_cost_nok, limit)
         IN  price_loop(Append(scenarios, [kWh_Usage  |-> kwh_usage,
                                           kWh_Price  |-> kwh_price,
                                           Total_Cost |-> total_cost]),
                        kwh_usage, Tail(kwh_price_range), markup_nok, fixed_cost_nok, limit)

\* the outer loop over the usages
RECURSIVE usage_loop(_, _, _, _, _, _)
usage_loop(scenarios, kwh_usage_range, kwh_price_range, markup_nok, fixed_cost_nok, limit) ==
    IF kwh_usage_range = <<>> THEN scenarios
    ELSE usage_loop(price_loop(scenarios, Head(kwh_usage_range), kwh_price_range,
                               markup_nok, fixed_cost_nok, limit),
                    Tail(kwh_usage_range), kwh_price_range, markup_nok, fixed_cost_nok, limit)

\* a variant with the loops exchanged: prices outside, usages inside
RECURSIVE price_major_loop(_, _, _, _, _, _)
price_major_loop(scenarios, kwh_usage_range, kwh_price_range, markup_nok, fixed_cost_nok, limit) ==
    IF kwh_price_range = <<>> THEN scenarios
    ELSE price_major_loop(
             scenarios \o [i \in 1..Len(kwh_usage_range) |->
                 [kWh_Usage  |-> kwh_usage_range[i],
                  kWh_Price  |-> Head(kwh_price_range),
                  Total_Cost |-> calculate_electricity_costs(kwh_usage_range[i],
                                     Head(kwh_price_range), markup_nok, fixed_cost_nok, limit)]],
             kwh_usage_range, Tail(kwh_price_range), markup_nok, fixed_cost_nok, limit)

scenario_analysis_price_major(kwh_usage_range, kwh_price_range, markup_nok, fixed_cost_nok, govt_support_limit_nok) ==
    [kind |-> "rows",
     rows |-> price_major_loop(<<>>, kwh_usage_range, kwh_price_range, markup_nok,
                               fixed_cost_nok, govt_support_limit_nok)]

scenario_analysis_electricity_costs(kwh_usage_range, kwh_price_range, markup_nok, fixed_cost_nok, govt_support_limit_nok) ==
    [kind |-> "rows",
     rows |-> usage_loop(<<>>, kwh_usage_range, kwh_price_range, markup_nok,
                         fixed_cost_nok, govt_support_limit_nok)]

SweepUsageValues == {R(100), R(5000), R(6000)}

SweepPriceValues == {Q(1, 2), Q(3, 2)}

CallScenarioAnalysisElectricity ==
    /\ pc = "idle"
    /\ \E usages \in SeqsUpTo(SweepUsageValues, MaxLen),
          prices \in SeqsUpTo(SweepPriceValues, MaxLen),
          limit \in SupportLimitValues :
          /\ op' = "scenario_analysis_electricity_costs"
          /\ args' = [kwh_usage_range |-> usages, kwh_price_range |-> prices,
                      markup |-> Q(1, 10), fixed_cost |-> R(50), limit |-> limit]
          /\ result' = scenario_analysis_electricity_costs(usages, prices,
                                                           Q(1, 10), R(50), limit)
    /\ pc' = "returned"

-----------------------------------------------------------------------------
(* monthly_price_calculator *)

\* max_loan_limit: None, or a number
NoLimit == [given |-> FALSE, v |-> Zero]

Limit(x) == [given |-> TRUE, v |-> x]

\* Python truth value of max_loan_limit: None and 0 are false
Truthy(max_loan_limit) == max_loan_limit.given /\ max_loan_limit.v # Zero

\* a variant that splits the electricity cost by ownership fraction, like the loan
monthly_price_calculator_el_by_ownership(houseprice, interest_rate, fixed_cost_house, elprice, ammortisation_periods, person_a_fixed_costs, person_b_fixed_costs, transaction_costs, ek, ownership_fraq, max_loan_limit) ==
    LET rest_fraq    == Sub(One, ownership_fraq)
        eff_ek       == Sub(ek, transaction_costs)
        loan         == Sub(houseprice, eff_ek)
        lan_total    == loan_calc_item(loan, interest_rate, ammortisation_periods)
        total_belop  == Add(Add(lan_total, elprice), fixed_cost_house)
        a_belop_hus  == Add(Add(Mul(lan_total, ownership_fraq), Mul(elprice, ownership_fraq)),
                            Div(fixed_cost_house, R(2)))
        b_belop_hus  == Add(Add(Mul(lan_total, rest_fraq), Mul(elprice, rest_fraq)),
                            Div(fixed_cost_house, R(2)))
    IN  IF Truthy(max_loan_limit) /\ Lt(max_loan_limit.v, loan)
        THEN [kind |-> "None", printed |-> "Maksimalt lanebelop oversteget."]
        ELSE [kind |-> "breakdown",
              row  |-> [lan_total          |-> lan_total,
                        rente              |-> interest_rate,
                        elpris             |-> elprice,
                        fk_hus             |-> fixed_cost_house,
                        total_belop        |-> total_belop,
                        a_belop_hus        |-> a_belop_hus,
                        b_belop_hus        |-> b_belop_hus,
                        a_total            |-> Add(a_belop_hus, person_a_fixed_costs),
                        b_total            |-> Add(b_belop_hus, person_b_fixed_costs),
                        person_a_eierandel |-> ownership_fraq,
                        person_b_eierandel |-> rest_fraq]]

monthly_price_calculator(houseprice, interest_rate, fixed_cost_house, elprice, ammortisation_periods, person_a_fixed_costs, person_b_fixed_costs, transaction_costs, ek, ownership_fraq, max_loan_limit) ==
    LET rest_fraq    == Sub(One, ownership_fraq)
        eff_ek       == Sub(ek, transaction_costs)
        loan         == Sub(houseprice, eff_ek)
        lan_total    == loan_calc_item(loan, interest_rate, ammortisation_periods)
        total_belop  == Add(Add(lan_total, elprice), fixed_cost_house)
        a_belop_hus  == Add(Add(Mul(lan_total, ownership_fraq), Div(elprice, R(2))),
                            Div(fixed_cost_house, R(2)))
        b_belop_hus  == Add(Add(Mul(lan_total, rest_fraq), Div(elprice, R(2))),
                            Div(fixed_cost_house, R(2)))
    IN  IF Truthy(max_loan_limit) /\ Lt(max_loan_limit.v, loan)
        THEN \* the message is printed and None is returned
             [kind |-> "None", printed |-> "Maksimalt lanebelop oversteget."]
        ELSE [kind |-> "breakdown",
              row  |-> [lan_total          |-> lan_total,
                        rente              |-> interest_rate,
                        elpris             |-> elprice,
                        fk_hus             |-> fixed_cost_house,
                        total_belop        |-> total_belop,
                        a_belop_hus        |-> a_belop_hus,
                        b_belop_hus        |-> b_belop_hus,
                        a_total            |-> Add(a_belop_hus, person_a_fixed_costs),
                        b_total            |-> Add(b_belop_hus, person_b_fixed_costs),
                        person_a_eierandel |-> ownership_fraq,
                        person_b_eierandel |-> rest_fraq]]

HousePriceValues == {R(200), R(300)}

HouseRateValues == {Zero, Q(6, 5)}

FixedCostHouseValues == {R(0), R(30)}

ElpriceValues == {R(0), R(15)}

TransactionCostValues == {R(0), R(20)}

EkValues == {R(50), R(250)}

OwnershipValues == {Zero, Q(1, 3), Q(1, 2), One, Q(3, 2)}

MaxLoanLimitValues == {NoLimit, Limit(Zero), Limit(R(-10)), Limit(R(100)), Limit(R(170))}

CallMonthlyPriceCalculator ==
    /\ pc = "idle"
    /\ \E houseprice \in HousePriceValues, interest_rate \in HouseRateValues,
          fixed_cost_house \in FixedCostHouseValues, elprice \in ElpriceValues,
          ammortisation_periods \in Terms, transaction_costs \in TransactionCostValues,
          ek \in EkValues, ownership_fraq \in OwnershipValues,
          max_loan_limit \in MaxLoanLimitValues :
          /\ op' = "monthly_price_calculator"
          /\ args' = [houseprice |-> houseprice, interest_rate |-> interest_rate,
                      fixed_cost_house |-> fixed_cost_house, elprice |-> elprice,
                      ammortisation_periods |-> ammortisation_periods,
                      person_a_fixed_costs |-> R(12), person_b_fixed_costs |-> R(10),
                      transaction_costs |-> transaction_costs, ek |-> ek,
                      ownership_fraq |-> ownership_fraq, max_loan_limit |-> max_loan_limit]
          /\ result' = monthly_price_calculator(houseprice, interest_rate, fixed_cost_house,
                           elprice, ammortisation_periods, R(12), R(10),
                           transaction_costs, ek, ownership_fraq, max_loan_limit)
    /\ pc' = "returned"

-----------------------------------------------------------------------------
(* monthly_price_calculator_scenarios *)

\* itertools.product with the last pool varying fastest
RECURSIVE product_first_fastest(_)
product_first_fastest(pools) ==
    IF pools = <<>> THEN << <<>> >>
    ELSE LET res  == product_first_fastest(SubSeq(pools, 1, Len(pools) - 1))
             pool == pools[Len(pools)]
         IN  ravel([j \in 1..Len(pool) |-> [i \in 1..Len(res) |-> Append(res[i], pool[j])]])

\* itertools.product: result = [x + [y] for x in result for y in pool], pool by pool
RECURSIVE product(_)
product(pools) ==
    IF pools = <<>> THEN << <<>> >>
    ELSE LET res  == product(SubSeq(pools, 1, Len(pools) - 1))
             pool == pools[Len(pools)]
         IN  ravel([i \in 1..Len(res) |-> [j \in 1..Len(pool) |-> Append(res[i], pool[j])]])

\* the body of the loop over all_combinations: the dictionary appended to results
scenario_row(c) ==
    LET house_price            == c[1]
        interest_rate          == c[2]
        fixed_cost_house       == c[3]
        kwh_usage              == c[4]
        kwh_price              == c[5]
        markup_nok             == c[6]
        fixed_cost_electricity == c[7]
        ammortisation_periods  == c[8]
        person_a_fixed_costs   == c[9]
        person_b_fixed_costs   == c[10]
        transaction_costs      == c[11]
        ek                     == c[12]
        ownership_fraq         == c[13]
        eff_ek  == Sub(ek, transaction_costs)
        loan    == Sub(house_price, eff_ek)
        monthly_loan_payment == loan_calc_item(loan, interest_rate, ammortisation_periods)
        el_cost == calculate_electricity_costs(kwh_usage, kwh_price, markup_nok,
                                               fixed_cost_electricity, DefaultSupportLimit)
        a_share == Add(Add(Mul(monthly_loan_payment, ownership_fraq), Div(el_cost, R(2))),
                       Div(fixed_cost_house, R(2)))
        b_share == Add(Add(Mul(monthly_loan_payment, Sub(One, ownership_fraq)),
                           Div(el_cost, R(2))),
                       Div(fixed_cost_house, R(2)))
    IN  [house_price            |-> house_price,
         interest_rate          |-> interest_rate,
         fixed_cost_house       |-> fixed_cost_house,
         kwh_usage              |-> kwh_usage,
         kwh_price              |-> kwh_price,
         markup_nok             |-> markup_nok,
         fixed_cost_electricity |-> fixed_cost_electricity,
         el_cost                |-> el_cost,
         ammortisation_periods  |-> ammortisation_periods,
         person_a_fixed_costs   |-> person_a_fixed_costs,
         person_b_fixed_costs   |-> person_b_fixed_costs,
         transaction_costs      |-> transaction_costs,
         ek                     |-> ek,
         ownership_fraq         |-> ownership_fraq,
         monthly_loan_payment   |-> monthly_loan_payment,
         a_total                |-> Add(a_share, person_a_fixed_costs),
         b_total                |-> Add(b_share, person_b_fixed_costs)]

\* ranges is the tuple of the 13 range arguments, in parameter order
monthly_price_calculator_scenarios(ranges) ==
    LET all_combinations == product(ranges)
    IN  [kind |-> "rows",
         rows |-> [k \in 1..Len(all_combinations) |-> scenario_row(all_combinations[k])]]

\* the 13 range parameters, in order
NumRanges == 13

\* two values for each parameter (the eighth, the term, is a whole number of months)
RangeValues ==
    << <<R(200), R(300)>>,      \* houseprice_range
       <<Q(6, 5), Zero>>,       \* interest_rate_range
       <<R(30), R(0)>>,         \* fixed_cost_house_range
       <<R(100), R(6000)>>,     \* kwh_usage_range
       <<Q(3, 2), Q(1, 2)>>,    \* kwh_price_range
       <<Q(1, 10), Zero>>,      \* markup_nok_range
       <<R(50), R(0)>>,         \* fixed_cost_electricity_range
       <<2, 1>>,                \* ammortisation_periods_range
       <<R(12), R(0)>>,         \* person_a_fixed_costs_range
       <<R(10), R(0)>>,         \* person_b_fixed_costs_range
       <<R(20), R(0)>>,         \* transaction_costs_range
       <<R(50), R(250)>>,       \* ek_range
       <<Q(1, 3), Q(1, 2)>> >>  \* ownership_fraq_range

\* the ranges tried for a parameter that varies: empty, both orders, a repeated value
VaryingRanges(d) ==
    LET a == RangeValues[d][1]
        b == RangeValues[d][2]
    IN  << <<>>, <<a, b>>, <<b, a>>, <<b, b>> >>

\* every tuple of 13 ranges in which at most MaxVarying ranges are not <<first value>>
ScenarioInputs ==
    UNION {
        { [d \in 1..NumRanges |->
              IF d \in S THEN VaryingRanges(d)[pick[d]] ELSE <<RangeValues[d][1]>>] :
          pick \in [S -> 1..4] } :
        S \in {T \in SUBSET (1..NumRanges) : Cardinality(T) <= MaxVarying} }

CallMonthlyPriceCalculatorScenarios ==
    /\ pc = "idle"
    /\ \E ranges \in ScenarioInputs :
          /\ op' = "monthly_price_calculator_scenarios"
          /\ args' = [ranges |-> ranges]
          /\ result' = monthly_price_calculator_scenarios(ranges)
    /\ pc' = "returned"

-----------------------------------------------------------------------------
(* The caller drops the returned value; nothing persists between calls *)

Discard ==
    /\ pc = "returned"
    /\ pc' = "idle"
    /\ op' = "none"
    /\ args' = <<>>
    /\ result' = <<>>

-----------------------------------------------------------------------------
Init == pc = "idle" /\ op = "none" /\ args = <<>> /\ result = <<>>

Next ==
    \/ CallLoanCalc
    \/ CallAmortizationSchedule
    \/ CallGovtSupport
    \/ CallElectricityCosts
    \/ CallScenarioAnalysisElectricity
    \/ CallMonthlyPriceCalculator
    \/ CallMonthlyPriceCalculatorScenarios
    \/ Discard

Spec == Init /\ [][Next]_vars

-----------------------------------------------------------------------------
(* Properties *)

Returned(name) == pc = "returned" /\ op = name

\* the loan the cost calculator computes from its arguments
LoanPrincipal == Sub(args.houseprice, Sub(args.ek, args.transaction_costs))

\* C1: in monthly_price_calculator, whenever max_loan_limit is supplied (any
\* number, 0 included) the limit message is given instead of a breakdown if and
\* only if house_price - (equity - transaction_costs) > max_loan_limit; without
\* a limit a breakdown is returned.
C1_LoanLimitExceededIff ==
    Returned("monthly_price_calculator") =>
        LET exceeded == args.max_loan_limit.given /\ Lt(args.max_loan_limit.v, LoanPrincipal)
        IN  /\ (result.kind = "None") <=> exceeded
            /\ (result.kind = "breakdown") <=> ~exceeded

\* the same statement for limits other than 0, which the code does satisfy
C1_HoldsForNonZeroLimit ==
    (Returned("monthly_price_calculator") /\ args.max_loan_limit # Limit(Zero)) =>
        LET exceeded == args.max_loan_limit.given /\ Lt(args.max_loan_limit.v, LoanPrincipal)
        IN  /\ (result.kind = "None") <=> exceeded
            /\ (result.kind = "breakdown") <=> ~exceeded

C3_ZeroRateLinearPayment ==
    (/\ Returned("loan_calc")
     /\ args.loan.scalar /\ args.rate.scalar
     /\ args.rate.v[1] = Zero
     /\ args.months >= 1) =>
        /\ ~IsNaN(result.data[1][1])
        /\ result.data[1][1] = Div(args.loan.v[1], R(args.months))

\* the annuity payment for one principal and one rate
Payment(principal, rate, months) == loan_calc_item(principal, rate, months)

\* C4: the shape of loan_calc's result follows from which of principal and rate
\* are sequences (of any length >= 1): two scalars give a scalar, one sequence
\* gives a one-dimensional result of its length, two sequences give the matrix
\* with a row per principal and a column per rate.
C4_ShapeByArgumentKind ==
    (Returned("loan_calc") /\ Len(args.loan.v) >= 1 /\ Len(args.rate.v) >= 1) =>
        LET l == args.loan.v
            r == args.rate.v
        IN  IF args.loan.scalar /\ args.rate.scalar
            THEN result.shape = "scalar"
            ELSE IF args.loan.scalar
            THEN result.shape = "vector" /\ Len(result.data[1]) = Len(r)
            ELSE IF args.rate.scalar
            THEN result.shape = "vector" /\ Len(result.data[1]) = Len(l)
            ELSE /\ result.shape = "matrix"
                 /\ Len(result.data) = Len(l)
                 /\ \A i \in 1..Len(l) :
                       /\ Len(result.data[i]) = Len(r)
                       /\ \A j \in 1..Len(r) :
                             result.data[i][j] = Payment(l[i], r[j], args.months)

\* the same statement for sequences of at least two elements, which the code
\* does satisfy
C4_HoldsForLongerSequences ==
    (/\ Returned("loan_calc")
     /\ (args.loan.scalar \/ Len(args.loan.v) >= 2)
     /\ (args.rate.scalar \/ Len(args.rate.v) >= 2)) =>
        LET l == args.loan.v
            r == args.rate.v
        IN  IF args.loan.scalar /\ args.rate.scalar
            THEN result.shape = "scalar"
            ELSE IF args.loan.scalar
            THEN result.shape = "vector" /\ Len(result.data[1]) = Len(r)
            ELSE IF args.rate.scalar
            THEN result.shape = "vector" /\ Len(result.data[1]) = Len(l)
            ELSE /\ result.shape = "matrix"
                 /\ Len(result.data) = Len(l)
                 /\ \A i \in 1..Len(l) : Len(result.data[i]) = Len(r)

\* the product of the lengths of ranges d..13
RECURSIVE LenProduct(_, _)
LenProduct(ranges, d) ==
    IF d > Len(ranges) THEN 1 ELSE Len(ranges[d]) * LenProduct(ranges, d + 1)

\* the 13 inputs a row of the household sweep records, in parameter order
RowInputs(row) ==
    <<row.house_price, row.interest_rate, row.fixed_cost_house, row.kwh_usage,
      row.kwh_price, row.markup_nok, row.fixed_cost_electricity,
      row.ammortisation_periods, row.person_a_fixed_costs, row.person_b_fixed_costs,
      row.transaction_costs, row.ek, row.ownership_fraq>>

\* C5: monthly_price_calculator_scenarios returns one row per combination of
\* its 13 ranges (as many rows as the product of the range lengths, none left
\* out), house_price varying slowest and ownership_fraq fastest, each range in
\* its input order: row k holds, for range d, the element at position
\* ((k-1) div (product of the lengths of the later ranges)) mod Len(range d).
C5_SweepCartesianOrder ==
    Returned("monthly_price_calculator_scenarios") =>
        LET ranges == args.ranges
            rows   == result.rows
        IN  /\ result.kind = "rows"
            /\ Len(rows) = LenProduct(ranges, 1)
            /\ \A k \in 1..Len(rows) : \A d \in 1..NumRanges :
                  RowInputs(rows[k])[d] =
                      ranges[d][(((k - 1) \div LenProduct(ranges, d + 1)) % Len(ranges[d])) + 1]

\* a sweep over two house prices and two ownership fractions: four rows, the
\* fraction changing from row to row and the price every second row
C5_Witness ==
    /\ Returned("monthly_price_calculator_scenarios")
    /\ Len(result.rows) = 4
    /\ Len(args.ranges[1]) = 2 /\ Len(args.ranges[13]) = 2
    /\ result.rows[1].ownership_fraq # result.rows[2].ownership_fraq
    /\ result.rows[1].house_price = result.rows[2].house_price
    /\ result.rows[1].house_price # result.rows[3].house_price

\* C6: scenario_analysis_electricity_costs returns Len(usages) * Len(prices)
\* rows, usage-major: row (i-1)*Len(prices) + j holds usages[i], prices[j] and
\* the electricity cost of that pair with the given markup, fixed cost and limit.
C6_ElectricitySweepOrder ==
    Returned("scenario_analysis_electricity_costs") =>
        LET U    == args.kwh_usage_range
            P    == args.kwh_price_range
            rows == result.rows
        IN  /\ Len(rows) = Len(U) * Len(P)
            /\ \A i \in 1..Len(U) : \A j \in 1..Len(P) :
                  LET row == rows[(i - 1) * Len(P) + j]
                  IN  /\ row.kWh_Usage = U[i]
                      /\ row.kWh_Price = P[j]
                      /\ row.Total_Cost =
                             calculate_electricity_costs(U[i], P[j], args.markup,
                                                         args.fixed_cost, args.limit)

\* a sweep of two different usages by two different prices: four rows in the
\* order (a,c), (a,d), (b,c), (b,d)
C6_Witness ==
    /\ Returned("scenario_analysis_electricity_costs")
    /\ Len(args.kwh_usage_range) = 2 /\ Len(args.kwh_price_range) = 2
    /\ args.kwh_usage_range[1] # args.kwh_usage_range[2]
    /\ args.kwh_price_range[1] # args.kwh_price_range[2]
    /\ Len(result.rows) = 4
    /\ result.rows[2].kWh_Usage = args.kwh_usage_range[1]
    /\ result.rows[2].kWh_Price = args.kwh_price_range[2]

\* C7: for a term of at least one month the amortization schedule has
\* term_months + 1 rows for months 0..term_months, row 0 holds the whole
\* principal as remaining balance and no principal or interest paid, and the
\* last remaining balance is within 1 of 0.
C7_ScheduleShape ==
    (Returned("calculate_amortization_schedule") /\ args.months >= 1) =>
        LET rows == result.rows
            last == rows[Len(rows)].RemainingBalance
        IN  /\ result.kind = "schedule"
            /\ Len(rows) = args.months + 1
            /\ \A k \in 1..Len(rows) : rows[k].Month = k - 1
            /\ rows[1].RemainingBalance = args.loan
            /\ rows[1].Principal = Zero
            /\ rows[1].Interest = Zero
            /\ Leq(R(-1), last) /\ Leq(last, One)

\* a schedule of several months at a rate above 0 for a principal that is not
\* whole, so that the last balance is a rounding remainder
C7_Witness ==
    /\ Returned("calculate_amortization_schedule")
    /\ args.months >= 2
    /\ args.rate # Zero
    /\ result.rows[Len(result.rows)].RemainingBalance # Zero
    /\ result.rows[2].Interest # Zero

\* valid inputs of the cost calculator: a term of at least a month, a share in [0,1]
ValidTermAndShare(months, share) == months >= 1 /\ Leq(Zero, share) /\ Leq(share, One)

\* C8: in the cost calculator and in the household sweep each party's share is
\* loan_payment times its ownership fraction plus half the electricity cost
\* plus half the fixed house cost, and the two shares add up to
\* loan_payment + electricity_cost + fixed_house_cost.
C8_SharesSplit ==
    /\ (/\ Returned("monthly_price_calculator")
        /\ result.kind = "breakdown"
        /\ ValidTermAndShare(args.ammortisation_periods, args.ownership_fraq)) =>
           LET r     == result.row
               halves == Add(Div(r.elpris, R(2)), Div(r.fk_hus, R(2)))
           IN  /\ NumEq(r.a_belop_hus, Add(Mul(r.lan_total, args.ownership_fraq), halves))
               /\ NumEq(r.b_belop_hus,
                        Add(Mul(r.lan_total, Sub(One, args.ownership_fraq)), halves))
               /\ NumEq(Add(r.a_belop_hus, r.b_belop_hus), r.total_belop)
               /\ NumEq(r.total_belop, Add(Add(r.lan_total, r.elpris), r.fk_hus))
    /\ Returned("monthly_price_calculator_scenarios") =>
           \A k \in 1..Len(result.rows) :
               LET r       == result.rows[k]
                   halves  == Add(Div(r.el_cost, R(2)), Div(r.fixed_cost_house, R(2)))
                   a_share == Sub(r.a_total, r.person_a_fixed_costs)
                   b_share == Sub(r.b_total, r.person_b_fixed_costs)
               IN  ValidTermAndShare(r.ammortisation_periods, r.ownership_fraq) =>
                   /\ NumEq(a_share, Add(Mul(r.monthly_loan_payment, r.ownership_fraq), halves))
                   /\ NumEq(b_share,
                            Add(Mul(r.monthly_loan_payment, Sub(One, r.ownership_fraq)), halves))
                   /\ NumEq(Add(a_share, b_share),
                            Add(Add(r.monthly_loan_payment, r.el_cost), r.fixed_cost_house))

\* the same split wherever the loan payment is a number (annual rate above 0),
\* which the code does satisfy
C8_HoldsForNumericPayment ==
    /\ (/\ Returned("monthly_price_calculator")
        /\ result.kind = "breakdown"
        /\ args.interest_rate # Zero
        /\ ValidTermAndShare(args.ammortisation_periods, args.ownership_fraq)) =>
           LET r     == result.row
               halves == Add(Div(r.elpris, R(2)), Div(r.fk_hus, R(2)))
           IN  /\ NumEq(r.a_belop_hus, Add(Mul(r.lan_total, args.ownership_fraq), halves))
               /\ NumEq(r.b_belop_hus,
                        Add(Mul(r.lan_total, Sub(One, args.ownership_fraq)), halves))
               /\ NumEq(Add(r.a_belop_hus, r.b_belop_hus), r.total_belop)
               /\ NumEq(r.total_belop, Add(Add(r.lan_total, r.elpris), r.fk_hus))
    /\ Returned("monthly_price_calculator_scenarios") =>
           \A k \in 1..Len(result.rows) :
               LET r       == result.rows[k]
                   halves  == Add(Div(r.el_cost, R(2)), Div(r.fixed_cost_house, R(2)))
                   a_share == Sub(r.a_total, r.person_a_fixed_costs)
                   b_share == Sub(r.b_total, r.person_b_fixed_costs)
               IN  (r.interest_rate # Zero
                    /\ ValidTermAndShare(r.ammortisation_periods, r.ownership_fraq)) =>
                   /\ NumEq(a_share, Add(Mul(r.monthly_loan_payment, r.ownership_fraq), halves))
                   /\ NumEq(b_share,
                            Add(Mul(r.monthly_loan_payment, Sub(One, r.ownership_fraq)), halves))
                   /\ NumEq(Add(a_share, b_share),
                            Add(Add(r.monthly_loan_payment, r.el_cost), r.fixed_cost_house))

\* C9: calculate_govt_support never returns a negative amount: for usage >= 0
\* it returns 0 when the price is at or below the support limit, 0 above
\* 5000 kWh, and 0.9 * kwh_usage * (price - support_limit) otherwise.
C9_SupportNeverNegative ==
    (Returned("calculate_govt_support") /\ Leq(Zero, args.kwh_usage)) =>
        /\ Leq(Zero, result.value)
        /\ result.value =
              IF Leq(args.price, args.limit) \/ Lt(R(5000), args.kwh_usage)
              THEN Zero
              ELSE Mul(Q(9, 10), Mul(args.kwh_usage, Sub(args.price, args.limit)))

\* the same statement for prices above the support limit, which the code does
\* satisfy
C9_HoldsAboveLimit ==
    (/\ Returned("calculate_govt_support")
     /\ Leq(Zero, args.kwh_usage)
     /\ Lt(args.limit, args.price)) =>
        /\ Leq(Zero, result.value)
        /\ result.value =
              IF Lt(R(5000), args.kwh_usage)
              THEN Zero
              ELSE Mul(Q(9, 10), Mul(args.kwh_usage, Sub(args.price, args.limit)))

\* the call in hand has a term <= 0, a negative usage or amount, or an
\* ownership fraction outside [0,1]
InvalidInputGiven ==
    CASE op = "loan_calc" ->
            \/ args.months <= 0
            \/ \E i \in 1..Len(args.loan.v) : Lt(args.loan.v[i], Zero)
      [] op = "calculate_amortization_schedule" ->
            args.months <= 0 \/ Lt(args.loan, Zero)
      [] op = "calculate_electricity_costs" ->
            Lt(args.kwh_usage, Zero) \/ Lt(args.fixed_cost, Zero)
      [] op = "monthly_price_calculator" ->
            \/ args.ammortisation_periods <= 0
            \/ Lt(args.ownership_fraq, Zero)
            \/ Lt(One, args.ownership_fraq)
      [] OTHER -> FALSE

\* C10: a core operation called with a term <= 0, a negative usage or amount or
\* an ownership fraction outside [0,1] fails with InvalidInput: it never
\* returns a payment, schedule, cost or breakdown.
C10_InvalidInputRejected ==
    (pc = "returned" /\ InvalidInputGiven) =>
        result.kind \notin {"payment", "schedule", "amount", "breakdown"}

\* the cost calculator called without a loan limit on the inputs of a row of
\* the household sweep, with the given amount as its elprice argument
ComposerOnRow(r, elprice) ==
    monthly_price_calculator(r.house_price, r.interest_rate, r.fixed_cost_house, elprice,
                             r.ammortisation_periods, r.person_a_fixed_costs,
                             r.person_b_fixed_costs, r.transaction_costs, r.ek,
                             r.ownership_fraq, NoLimit)

====
